---- MODULE Spec2Model ----
(***************************************************************************)
(* Model of ReadonlyMiraAmm (packages/mira-v1/src/readonly_mira_amm.rs):   *)
(* the read-only facade of the Mira AMM.  The facade is bound once by      *)
(* connect, then serves read-only queries and previews.  Every async fn is *)
(* a sequence of awaits; each await is one step of the calling task, so    *)
(* calls of different tasks interleave at the awaits.                      *)
(***************************************************************************)
EXTENDS Integers, Sequences, FiniteSets, TLC

VARIABLES keyValid, facade, ledger, calls

vars == <<keyValid, facade, ledger, calls>>

(***************************************************************************)
(* Bounds                                                                  *)
(***************************************************************************)
MaxBal == 2      \* largest balance of the simulation account per asset
MaxAmt == 2      \* largest amount a caller passes
MaxHops == 2     \* longest pool path a caller passes

Procs == {"t1", "t2"}                 \* concurrent caller tasks

(***************************************************************************)
(* Values                                                                  *)
(***************************************************************************)
None == [tag |-> "None"]
Some(x) == [tag |-> "Some", value |-> x]
IsSome(o) == o.tag = "Some"

Ok(x) == [kind |-> "Ok", value |-> x]
Err(e) == [kind |-> "Err", err |-> e]
Panic(e) == [kind |-> "Panic", err |-> e]     \* Result::unwrap on an Err
Pending == [kind |-> "Pending"]

\* failures a request to the node can end with, besides succeeding
Faults == {"transport", "execution"}

Assets == {"A", "B", "C"}

\* PoolId = (AssetId, AssetId, bool), the pair in canonical order
PoolAB == <<"A", "B", FALSE>>
PoolBC == <<"B", "C", FALSE>>
PoolAC == <<"A", "C", FALSE>>
Pools == {PoolAB, PoolBC, PoolAC}

DEFAULT_AMM_CONTRACT_ID == "amm_default"
OtherContract == "amm_other"
Contracts == {DEFAULT_AMM_CONTRACT_ID, OtherContract}

SimulationAddress == "readonly_wallet"     \* address of READONLY_PRIVATE_KEY
Identities == {"alice", "bob"}

sufficient_tx_policies == [max_fee |-> Some(1000000000)]
default_tx_policies == [max_fee |-> None]

\* utils::get_lp_asset_id: the LP asset of a pool, derived from the contract
\* address and the pool identity (a hash; distinct inputs, distinct ids)
get_lp_asset_id(contract, pool_id) ==
    CASE contract = DEFAULT_AMM_CONTRACT_ID /\ pool_id = PoolAB -> "lp_default_AB"
      [] contract = DEFAULT_AMM_CONTRACT_ID /\ pool_id = PoolBC -> "lp_default_BC"
      [] contract = DEFAULT_AMM_CONTRACT_ID /\ pool_id = PoolAC -> "lp_default_AC"
      [] contract = OtherContract /\ pool_id = PoolAB -> "lp_other_AB"
      [] contract = OtherContract /\ pool_id = PoolBC -> "lp_other_BC"
      [] contract = OtherContract /\ pool_id = PoolAC -> "lp_other_AC"

LpAssets == {get_lp_asset_id(c, q) : c \in Contracts, q \in Pools}
AllAssets == Assets \cup LpAssets

(***************************************************************************)
(* Ledger: what the node answers from.  Nothing in the facade writes it.   *)
(***************************************************************************)
Uninitialized == [tag |-> "Uninitialized"]
Initialized(x) == [tag |-> "Initialized", value |-> x]
Revoked == [tag |-> "Revoked"]
States == {Uninitialized, Revoked} \cup {Initialized(x) : x \in Identities}

Options(S) == {None} \cup {Some(x) : x \in S}

\* the asset identifiers a caller asks lp_asset_info about
QueryAssets == {"lp_default_AB", "A"}

(***************************************************************************)
(* Calls: one record per caller task, the async fn it runs and where it is *)
(***************************************************************************)
NoPool == <<"-", "-", FALSE>>
NoArgs == [pool_id |-> NoPool, asset |-> "-", amount_0 |-> 0, amount_1 |-> 0,
           pools |-> <<>>]

Idle == [op |-> "none", args |-> NoArgs, pc |-> "idle", reqs |-> <<>>,
         vals |-> <<>>, spends |-> <<>>, inputs |-> <<>>, outputs |-> <<>>,
         result |-> Pending]

\* one request sent to the node: a contract method or a script, simulated
Request(method, contract, mode, policies, inputs, outputs, var_out, fault) ==
    [method |-> method, contract |-> contract, mode |-> mode,
     policies |-> policies, inputs |-> inputs, outputs |-> outputs,
     var_out |-> var_out, fault |-> fault]

\* a task calls into the facade when it is not inside a call
Callable(p) == facade.status = "ok" /\ calls[p].pc = "idle"

\* the async fn has returned (or unwound): the caller takes the result and the
\* call's locals are dropped
Return(p) ==
    /\ calls[p].pc = "done"
    /\ calls' = [calls EXCEPT ![p] = Idle]
    /\ UNCHANGED <<keyValid, facade, ledger>>

\* `.simulate(..).await?`: the value on success, the error returned otherwise
Try(fault, value) == IF fault = "none" THEN Ok(value) ELSE Err(fault)

(***************************************************************************)
(* connect / id                                                            *)
(***************************************************************************)
\* `arg` remembers the contract_id connect was called with
Unbound == [status |-> "unbound", arg |-> None, amm_contract |-> "-",
            add_liquidity_script |-> "-", remove_liquidity_script |-> "-",
            swap_exact_input_script |-> "-", swap_exact_output_script |-> "-"]

\* mutant of connect: the scripts keep the compiled-in default address
connect_scripts_default(contract_id) ==
    /\ facade.status = "unbound"
    /\ facade' =
         IF ~keyValid
         THEN [Unbound EXCEPT !.status = "err", !.arg = contract_id]
         ELSE LET amm_contract == IF IsSome(contract_id) THEN contract_id.value
                                  ELSE DEFAULT_AMM_CONTRACT_ID
              IN [status |-> "ok", arg |-> contract_id,
                  amm_contract |-> amm_contract,
                  add_liquidity_script |-> DEFAULT_AMM_CONTRACT_ID,
                  remove_liquidity_script |-> DEFAULT_AMM_CONTRACT_ID,
                  swap_exact_input_script |-> DEFAULT_AMM_CONTRACT_ID,
                  swap_exact_output_script |-> DEFAULT_AMM_CONTRACT_ID]
    /\ UNCHANGED <<keyValid, ledger, calls>>

connect(contract_id) ==
    /\ facade.status = "unbound"
    /\ facade' =
         IF ~keyValid
         THEN [Unbound EXCEPT !.status = "err", !.arg = contract_id]
         ELSE LET amm_contract == IF IsSome(contract_id) THEN contract_id.value
                                  ELSE DEFAULT_AMM_CONTRACT_ID
              IN [status |-> "ok", arg |-> contract_id,
                  amm_contract |-> amm_contract,
                  add_liquidity_script |-> amm_contract,
                  remove_liquidity_script |-> amm_contract,
                  swap_exact_input_script |-> amm_contract,
                  swap_exact_output_script |-> amm_contract]
    /\ UNCHANGED <<keyValid, ledger, calls>>

id == facade.amm_contract

(***************************************************************************)
(* Read-only queries                                                       *)
(***************************************************************************)
Query(method, fault) ==
    Request(method, id, "StateReadOnly", sufficient_tx_policies, <<>>, <<>>, 0,
            fault)

pool_metadata(p, pool_id) ==
    /\ Callable(p)
    /\ \E fault \in {"none"} \cup Faults :
         calls' = [calls EXCEPT ![p] =
            [Idle EXCEPT !.op = "pool_metadata", !.args.pool_id = pool_id,
                         !.pc = "done",
                         !.reqs = <<Query("pool_metadata", fault)>>,
                         !.result = Try(fault, ledger.pools[pool_id])]]
    /\ UNCHANGED <<keyValid, facade, ledger>>

fees(p) ==
    /\ Callable(p)
    /\ \E fault \in {"none"} \cup Faults :
         calls' = [calls EXCEPT ![p] =
            [Idle EXCEPT !.op = "fees", !.pc = "done",
                         !.reqs = <<Query("fees", fault)>>,
                         !.result = Try(fault,
                            [lp_fee_volatile |-> ledger.fees[1],
                             lp_fee_stable |-> ledger.fees[2],
                             protocol_fee_volatile |-> ledger.fees[3],
                             protocol_fee_stable |-> ledger.fees[4]])]]
    /\ UNCHANGED <<keyValid, facade, ledger>>

hook(p) ==
    /\ Callable(p)
    /\ \E fault \in {"none"} \cup Faults :
         calls' = [calls EXCEPT ![p] =
            [Idle EXCEPT !.op = "hook", !.pc = "done",
                         !.reqs = <<Query("hook", fault)>>,
                         !.result = Try(fault, ledger.hook)]]
    /\ UNCHANGED <<keyValid, facade, ledger>>

total_assets(p) ==
    /\ Callable(p)
    /\ \E fault \in {"none"} \cup Faults :
         calls' = [calls EXCEPT ![p] =
            [Idle EXCEPT !.op = "total_assets", !.pc = "done",
                         !.reqs = <<Query("total_assets", fault)>>,
                         !.result = Try(fault, ledger.total_assets)]]
    /\ UNCHANGED <<keyValid, facade, ledger>>

\* mutant of owner_match: a revoked ownership still reports the last owner slot
owner_match_revoked_present(ownership_state) ==
    CASE ownership_state.tag = "Uninitialized" -> None
      [] ownership_state.tag = "Initialized" -> Some(ownership_state.value)
      [] ownership_state.tag = "Revoked" -> Some("alice")

\* the match on the tri-state ownership value
owner_match(ownership_state) ==
    CASE ownership_state.tag = "Uninitialized" -> None
      [] ownership_state.tag = "Initialized" -> Some(ownership_state.value)
      [] ownership_state.tag = "Revoked" -> None

owner(p) ==
    /\ Callable(p)
    /\ \E fault \in {"none"} \cup Faults :
         calls' = [calls EXCEPT ![p] =
            [Idle EXCEPT !.op = "owner", !.pc = "done",
                         !.reqs = <<Query("owner", fault)>>,
                         !.result = IF fault = "none"
                                    THEN Ok(owner_match(ledger.ownership))
                                    ELSE Err(fault)]]
    /\ UNCHANGED <<keyValid, facade, ledger>>

\* mutant of lp_asset_info_match: a missing total supply is filled with 0
lp_asset_info_match_partial(asset_id, name, symbol, decimals, total_supply) ==
    IF IsSome(name) /\ IsSome(symbol) /\ IsSome(decimals)
    THEN Some([asset_id |-> asset_id, name |-> name.value,
               symbol |-> symbol.value, decimals |-> decimals.value,
               total_supply |-> IF IsSome(total_supply) THEN total_supply.value
                                ELSE 0])
    ELSE None

\* the final match of lp_asset_info on the four sub-query values
lp_asset_info_match(asset_id, name, symbol, decimals, total_supply) ==
    IF IsSome(name) /\ IsSome(symbol) /\ IsSome(decimals) /\ IsSome(total_supply)
    THEN Some([asset_id |-> asset_id, name |-> name.value,
               symbol |-> symbol.value, decimals |-> decimals.value,
               total_supply |-> total_supply.value])
    ELSE None

\* mutant of SubQueried: a failed sub-query counts as an absent value and the
\* call goes on to the next sub-query
SubQueried_swallow(c, method, value, next, fault) ==
    [c EXCEPT !.pc = next,
              !.reqs = Append(@, Query(method, fault)),
              !.vals = Append(@, IF fault = "none" THEN value ELSE None)]

\* one sub-query of lp_asset_info after the first, `.await?`: on failure the
\* call returns the error, otherwise it goes on to `next` with the value kept
SubQueried(c, method, value, next, fault) ==
    IF fault = "none"
    THEN [c EXCEPT !.pc = next,
                   !.reqs = Append(@, Query(method, fault)),
                   !.vals = Append(@, value)]
    ELSE [c EXCEPT !.pc = "done",
                   !.reqs = Append(@, Query(method, fault)),
                   !.result = Err(fault)]

lp_asset_info_name(p, asset_id) ==
    /\ Callable(p)
    /\ \E fault \in {"none"} \cup Faults :
         calls' = [calls EXCEPT ![p] =
            IF fault = "none"
            THEN [Idle EXCEPT !.op = "lp_asset_info", !.args.asset = asset_id,
                              !.pc = "symbol",
                              !.reqs = <<Query("name", fault)>>,
                              !.vals = <<ledger.name[asset_id]>>]
            ELSE [Idle EXCEPT !.op = "lp_asset_info", !.args.asset = asset_id,
                              !.pc = "done",
                              !.reqs = <<Query("name", fault)>>,
                              !.result = Err(fault)]]
    /\ UNCHANGED <<keyValid, facade, ledger>>

lp_asset_info_symbol(p) ==
    /\ facade.status = "ok"
    /\ calls[p].pc = "symbol"
    /\ \E fault \in {"none"} \cup Faults :
         calls' = [calls EXCEPT ![p] =
            SubQueried(@, "symbol", ledger.symbol[calls[p].args.asset],
                       "decimals", fault)]
    /\ UNCHANGED <<keyValid, facade, ledger>>

lp_asset_info_decimals(p) ==
    /\ facade.status = "ok"
    /\ calls[p].pc = "decimals"
    /\ \E fault \in {"none"} \cup Faults :
         calls' = [calls EXCEPT ![p] =
            SubQueried(@, "decimals", ledger.decimals[calls[p].args.asset],
                       "total_supply", fault)]
    /\ UNCHANGED <<keyValid, facade, ledger>>

lp_asset_info_total_supply(p) ==
    /\ facade.status = "ok"
    /\ calls[p].pc = "total_supply"
    /\ \E fault \in {"none"} \cup Faults :
         LET total_supply == ledger.total_supply[calls[p].args.asset]
             c == calls[p]
         IN calls' = [calls EXCEPT ![p] =
               [@ EXCEPT !.pc = "done",
                         !.reqs = Append(@, Query("total_supply", fault)),
                         !.vals = IF fault = "none" THEN Append(@, total_supply)
                                  ELSE @,
                         !.result =
                            IF fault = "none"
                            THEN Ok(lp_asset_info_match(c.args.asset, c.vals[1],
                                       c.vals[2], c.vals[3], total_supply))
                            ELSE Err(fault)]]
    /\ UNCHANGED <<keyValid, facade, ledger>>

(***************************************************************************)
(* Collaborators of the previews                                           *)
(***************************************************************************)
Other(pool_id, a) == IF pool_id[1] = a THEN pool_id[2] ELSE pool_id[1]

\* utils::get_asset_id_in: walks the pool path backwards from the output asset
RECURSIVE get_asset_id_in(_, _)
get_asset_id_in(asset_out, pools) ==
    IF pools = <<>> THEN asset_out
    ELSE get_asset_id_in(Other(pools[Len(pools)], asset_out),
                         SubSeq(pools, 1, Len(pools) - 1))

\* utils::get_transaction_inputs_outputs: for each spend, inputs drawn on the
\* account's current balance of the asset; one change output
get_transaction_inputs_outputs(account, spends) ==
    [inputs |-> [i \in DOMAIN spends |->
                    [asset_id |-> spends[i][1], amount |-> spends[i][2],
                     available |-> ledger.balance[spends[i][1]]]],
     outputs |-> << [type |-> "Change", to |-> account] >>]

Covered(inputs) == \A i \in DOMAIN inputs : inputs[i].available >= inputs[i].amount

\* the pool's pricing, as far as a preview shows it: constant product
AmountOut(pool_id, asset_in, amount) ==
    LET m == ledger.pools[pool_id].value
        r_in == IF pool_id[1] = asset_in THEN m.reserve_0 ELSE m.reserve_1
        r_out == IF pool_id[1] = asset_in THEN m.reserve_1 ELSE m.reserve_0
    IN (amount * r_out) \div (r_in + amount)

\* the swap scripts: the (amount, asset) pairs through each hop, or <<>> when
\* the contract rejects the path
RECURSIVE SwapThrough(_, _, _)
SwapThrough(amount, asset, pools) ==
    IF pools = <<>> THEN << <<amount, asset>> >>
    ELSE LET h == Head(pools) IN
         IF (asset \notin {h[1], h[2]}) \/ ~IsSome(ledger.pools[h]) THEN <<>>
         ELSE LET rest == SwapThrough(AmountOut(h, asset, amount), Other(h, asset),
                                      Tail(pools))
              IN IF rest = <<>> THEN <<>> ELSE << <<amount, asset>> >> \o rest

\* what the node answers to a simulated script: the script's return value, or
\* the error of the transport or of the execution
ScriptOutcome(op, args, contract, inputs, fault) ==
    IF fault # "none" THEN Err(fault)
    ELSE IF ~Covered(inputs) THEN Err("execution")
    ELSE CASE op = "preview_add_liquidity" ->
                IF IsSome(ledger.pools[args.pool_id])
                THEN Ok([id |-> get_lp_asset_id(contract, args.pool_id),
                         amount |-> args.amount_0 + args.amount_1])
                ELSE Err("execution")
           [] op = "preview_remove_liquidity" ->
                IF IsSome(ledger.pools[args.pool_id])
                THEN Ok(<<args.amount_0 * ledger.pools[args.pool_id].value.reserve_0,
                          args.amount_0 * ledger.pools[args.pool_id].value.reserve_1>>)
                ELSE Err("execution")
           [] op = "preview_swap_exact_input" ->
                LET path == SwapThrough(args.amount_0, args.asset, args.pools)
                IN IF args.pools # <<>> /\ path # <<>> THEN Ok(path)
                   ELSE Err("execution")
           [] op = "swap_exact_output" ->
                LET path == SwapThrough(args.amount_1,
                                        get_asset_id_in(args.asset, args.pools),
                                        args.pools)
                IN IF args.pools # <<>> /\ path # <<>>
                      /\ path[Len(path)][2] = args.asset
                   THEN Ok(path)
                   ELSE Err("execution")

(***************************************************************************)
(* Previews: the inputs/outputs await, then the simulate await             *)
(***************************************************************************)
\* after the first await: the spends were handed to the template builder
Built(op, args, spends) ==
    LET io == get_transaction_inputs_outputs(SimulationAddress, spends)
    IN [Idle EXCEPT !.op = op, !.args = args, !.pc = "simulate",
                    !.spends = spends, !.inputs = io.inputs,
                    !.outputs = io.outputs]

\* `.simulate(mode).await.unwrap().value` then `Ok(..)`
Unwrap(outcome) == IF outcome.kind = "Ok" THEN outcome ELSE Panic(outcome.err)

\* after the second await: the script ran with the builder's inputs and
\* outputs, the default policies and one variable output
Simulated(c, script, mode, fault) ==
    [c EXCEPT !.pc = "done",
              !.reqs = <<Request(c.op, script, mode, default_tx_policies,
                                 c.inputs, c.outputs, 1, fault)>>,
              !.result = Unwrap(ScriptOutcome(c.op, c.args, script, c.inputs,
                                              fault))]

Simulating(p, op) ==
    facade.status = "ok" /\ calls[p].pc = "simulate" /\ calls[p].op = op

\* mutant of preview_add_liquidity_inputs: the second pooled asset is not spent
preview_add_liquidity_inputs_one_spend(p, pool_id, amount_0_desired, amount_1_desired) ==
    /\ Callable(p)
    /\ calls' = [calls EXCEPT ![p] =
          Built("preview_add_liquidity",
                [NoArgs EXCEPT !.pool_id = pool_id, !.amount_0 = amount_0_desired,
                               !.amount_1 = amount_1_desired],
                << <<pool_id[1], amount_0_desired>> >>)]
    /\ UNCHANGED <<keyValid, facade, ledger>>

preview_add_liquidity_inputs(p, pool_id, amount_0_desired, amount_1_desired) ==
    /\ Callable(p)
    /\ calls' = [calls EXCEPT ![p] =
          Built("preview_add_liquidity",
                [NoArgs EXCEPT !.pool_id = pool_id, !.amount_0 = amount_0_desired,
                               !.amount_1 = amount_1_desired],
                << <<pool_id[1], amount_0_desired>>,
                   <<pool_id[2], amount_1_desired>> >>)]
    /\ UNCHANGED <<keyValid, facade, ledger>>

\* mutant of preview_add_liquidity_simulate: the script is sent as a real
\* transaction, which spends the inputs
preview_add_liquidity_simulate_commit(p) ==
    /\ Simulating(p, "preview_add_liquidity")
    /\ \E fault \in {"none"} \cup Faults :
         calls' = [calls EXCEPT ![p] =
            Simulated(@, facade.add_liquidity_script, "StateReadOnly", fault)]
    /\ ledger' = [ledger EXCEPT !.balance =
                    [a \in AllAssets |->
                        IF a = calls[p].spends[1][1] /\ @[a] >= calls[p].spends[1][2]
                        THEN @[a] - calls[p].spends[1][2] ELSE @[a]]]
    /\ UNCHANGED <<keyValid, facade>>

preview_add_liquidity_simulate(p) ==
    /\ Simulating(p, "preview_add_liquidity")
    /\ \E fault \in {"none"} \cup Faults :
         calls' = [calls EXCEPT ![p] =
            Simulated(@, facade.add_liquidity_script, "StateReadOnly", fault)]
    /\ UNCHANGED <<keyValid, facade, ledger>>

preview_remove_liquidity_inputs(p, pool_id, liquidity) ==
    /\ Callable(p)
    /\ calls' = [calls EXCEPT ![p] =
          Built("preview_remove_liquidity",
                [NoArgs EXCEPT !.pool_id = pool_id, !.amount_0 = liquidity],
                << <<get_lp_asset_id(id, pool_id), liquidity>> >>)]
    /\ UNCHANGED <<keyValid, facade, ledger>>

preview_remove_liquidity_simulate(p) ==
    /\ Simulating(p, "preview_remove_liquidity")
    /\ \E fault \in {"none"} \cup Faults :
         calls' = [calls EXCEPT ![p] =
            Simulated(@, facade.remove_liquidity_script, "StateReadOnly", fault)]
    /\ UNCHANGED <<keyValid, facade, ledger>>

\* mutant of preview_swap_exact_input_inputs: the builder's coins are set
\* aside for the call
preview_swap_exact_input_inputs_reserving(p, amount_in, asset_in, pools) ==
    /\ Callable(p)
    /\ calls' = [calls EXCEPT ![p] =
          Built("preview_swap_exact_input",
                [NoArgs EXCEPT !.amount_0 = amount_in, !.asset = asset_in,
                               !.pools = pools],
                << <<asset_in, amount_in>> >>)]
    /\ ledger' = [ledger EXCEPT !.balance[asset_in] =
                    IF @ >= amount_in THEN @ - amount_in ELSE @]
    /\ UNCHANGED <<keyValid, facade>>

preview_swap_exact_input_inputs(p, amount_in, asset_in, pools) ==
    /\ Callable(p)
    /\ calls' = [calls EXCEPT ![p] =
          Built("preview_swap_exact_input",
                [NoArgs EXCEPT !.amount_0 = amount_in, !.asset = asset_in,
                               !.pools = pools],
                << <<asset_in, amount_in>> >>)]
    /\ UNCHANGED <<keyValid, facade, ledger>>

preview_swap_exact_input_simulate(p) ==
    /\ Simulating(p, "preview_swap_exact_input")
    /\ \E fault \in {"none"} \cup Faults :
         calls' = [calls EXCEPT ![p] =
            Simulated(@, facade.swap_exact_input_script, "StateReadOnly", fault)]
    /\ UNCHANGED <<keyValid, facade, ledger>>

\* mutant of swap_exact_output_inputs: the output asset is spent
swap_exact_output_inputs_spends_output(p, asset_out, amount_in_max, pools) ==
    /\ Callable(p)
    /\ calls' = [calls EXCEPT ![p] =
          Built("swap_exact_output",
                [NoArgs EXCEPT !.asset = asset_out, !.amount_1 = amount_in_max,
                               !.pools = pools],
                << <<asset_out, amount_in_max>> >>)]
    /\ UNCHANGED <<keyValid, facade, ledger>>

swap_exact_output_inputs(p, asset_out, amount_in_max, pools) ==
    /\ Callable(p)
    /\ LET asset_in == get_asset_id_in(asset_out, pools)
       IN calls' = [calls EXCEPT ![p] =
             Built("swap_exact_output",
                   [NoArgs EXCEPT !.asset = asset_out, !.amount_1 = amount_in_max,
                                  !.pools = pools],
                   << <<asset_in, amount_in_max>> >>)]
    /\ UNCHANGED <<keyValid, facade, ledger>>

\* mutant of swap_exact_output_simulate: the cheaper mode of the other previews
swap_exact_output_simulate_readonly(p) ==
    /\ Simulating(p, "swap_exact_output")
    /\ \E fault \in {"none"} \cup Faults :
         calls' = [calls EXCEPT ![p] =
            Simulated(@, facade.swap_exact_output_script, "StateReadOnly", fault)]
    /\ UNCHANGED <<keyValid, facade, ledger>>

swap_exact_output_simulate(p) ==
    /\ Simulating(p, "swap_exact_output")
    /\ \E fault \in {"none"} \cup Faults :
         calls' = [calls EXCEPT ![p] =
            Simulated(@, facade.swap_exact_output_script, "Realistic", fault)]
    /\ UNCHANGED <<keyValid, facade, ledger>>

(***************************************************************************)
(* Specifications                                                          *)
(***************************************************************************)
Amounts == 1..MaxAmt

RECURSIVE PathsUpTo(_)
PathsUpTo(n) ==
    IF n = 0 THEN {<<>>}
    ELSE PathsUpTo(n - 1) \cup
         {Append(q, h) : q \in {r \in PathsUpTo(n - 1) : Len(r) = n - 1}, h \in Pools}
Paths == PathsUpTo(MaxHops)

\* the LP registry knows "lp_default_AB" and does not know "A"
KnownRegistry(v) == [a \in QueryAssets |-> IF a = "lp_default_AB" THEN Some(v) ELSE None]

\* balances of the simulation account: the same of every asset, or only A
Balances == {[a \in AllAssets |-> b] : b \in 0..MaxBal}
            \cup {[a \in AllAssets |-> IF a = "A" THEN MaxBal ELSE 0]}
ScarceBalances == {[a \in AllAssets |-> b] : b \in (MaxBal - 1)..MaxBal}

AllPools == [q \in Pools |-> Some([reserve_0 |-> 1, reserve_1 |-> 2])]
SomePools == [AllPools EXCEPT ![PoolAC] = None]

\* Spec: two tasks, every operation, a few arguments each
SmallLedgers ==
    {l \in [ownership : {Initialized("alice")},
            name : {KnownRegistry("Mira LP")},
            symbol : {KnownRegistry("MLP")},
            decimals : {KnownRegistry(9)},
            total_supply : {KnownRegistry(5)},
            balance : ScarceBalances,
            pools : {SomePools},
            fees : {<<30, 5, 1, 2>>},
            hook : {Some("hook_contract")},
            total_assets : {3}] : TRUE}

Init ==
    /\ keyValid \in BOOLEAN
    /\ facade = Unbound
    /\ ledger \in SmallLedgers
    /\ calls = [p \in Procs |-> Idle]

SmallPaths == {<<PoolAB>>, <<PoolAB, PoolBC>>}

Next ==
    \/ \E c \in Options(Contracts) : connect(c)
    \/ \E p \in Procs : pool_metadata(p, PoolAB)
    \/ \E p \in Procs : fees(p)
    \/ \E p \in Procs : hook(p)
    \/ \E p \in Procs : total_assets(p)
    \/ \E p \in Procs : owner(p)
    \/ \E p \in Procs : lp_asset_info_name(p, "lp_default_AB")
    \/ \E p \in Procs : lp_asset_info_symbol(p)
    \/ \E p \in Procs : lp_asset_info_decimals(p)
    \/ \E p \in Procs : lp_asset_info_total_supply(p)
    \/ \E p \in Procs, x \in Amounts, y \in Amounts :
          preview_add_liquidity_inputs(p, PoolAB, x, y)
    \/ \E p \in Procs : preview_add_liquidity_simulate(p)
    \/ \E p \in Procs, x \in Amounts : preview_remove_liquidity_inputs(p, PoolAB, x)
    \/ \E p \in Procs : preview_remove_liquidity_simulate(p)
    \/ \E p \in Procs, x \in Amounts, ps \in SmallPaths :
          preview_swap_exact_input_inputs(p, x, "A", ps)
    \/ \E p \in Procs : preview_swap_exact_input_simulate(p)
    \/ \E p \in Procs, x \in Amounts, ps \in SmallPaths :
          swap_exact_output_inputs(p, "C", x, ps)
    \/ \E p \in Procs : swap_exact_output_simulate(p)
    \/ \E p \in Procs : Return(p)

Spec == Init /\ [][Next]_vars

\* SpecQuery: one task, the queries, every ownership state and LP registry
QueryLedgers ==
    [ownership : States,
     name : [QueryAssets -> Options({"Mira LP"})],
     symbol : [QueryAssets -> Options({"MLP"})],
     decimals : [QueryAssets -> Options({9})],
     total_supply : [QueryAssets -> Options({5})],
     balance : {[a \in AllAssets |-> MaxBal]},
     pools : {SomePools},
     fees : {<<30, 5, 1, 2>>},
     hook : Options({"hook_contract"}),
     total_assets : {3}]

InitQuery ==
    /\ keyValid \in BOOLEAN
    /\ facade = Unbound
    /\ ledger \in QueryLedgers
    /\ calls = [p \in Procs |-> Idle]

NextQuery ==
    \/ \E c \in Options(Contracts) : connect(c)
    \/ \E q \in Pools : pool_metadata("t1", q)
    \/ fees("t1")
    \/ hook("t1")
    \/ total_assets("t1")
    \/ owner("t1")
    \/ \E a \in QueryAssets : lp_asset_info_name("t1", a)
    \/ lp_asset_info_symbol("t1")
    \/ lp_asset_info_decimals("t1")
    \/ lp_asset_info_total_supply("t1")
    \/ Return("t1")

SpecQuery == InitQuery /\ [][NextQuery]_vars

\* SpecPreview: one task, the previews, every pool, asset and path
PreviewLedgers ==
    {l \in [ownership : {Initialized("alice")},
            name : {KnownRegistry("Mira LP")},
            symbol : {KnownRegistry("MLP")},
            decimals : {KnownRegistry(9)},
            total_supply : {KnownRegistry(5)},
            balance : Balances,
            pools : {AllPools, SomePools},
            fees : {<<30, 5, 1, 2>>},
            hook : {Some("hook_contract")},
            total_assets : {3}] : TRUE}

InitPreview ==
    /\ keyValid \in BOOLEAN
    /\ facade = Unbound
    /\ ledger \in PreviewLedgers
    /\ calls = [p \in Procs |-> Idle]

NextPreview ==
    \/ \E c \in Options(Contracts) : connect(c)
    \/ \E q \in Pools, x \in Amounts, y \in Amounts :
          preview_add_liquidity_inputs("t1", q, x, y)
    \/ preview_add_liquidity_simulate("t1")
    \/ \E q \in Pools, x \in Amounts : preview_remove_liquidity_inputs("t1", q, x)
    \/ preview_remove_liquidity_simulate("t1")
    \/ \E x \in Amounts, a \in Assets, ps \in Paths :
          preview_swap_exact_input_inputs("t1", x, a, ps)
    \/ preview_swap_exact_input_simulate("t1")
    \/ \E a \in Assets, x \in Amounts, ps \in Paths :
          swap_exact_output_inputs("t1", a, x, ps)
    \/ swap_exact_output_simulate("t1")
    \/ Return("t1")

SpecPreview == InitPreview /\ [][NextPreview]_vars

(***************************************************************************)
(* Properties                                                              *)
(***************************************************************************)
PreviewOps == {"preview_add_liquidity", "preview_remove_liquidity",
               "preview_swap_exact_input", "swap_exact_output"}
QueryOps == {"pool_metadata", "fees", "hook", "total_assets", "lp_asset_info",
             "owner"}

Done(p) == calls[p].pc = "done"
DonePreview(p) == Done(p) /\ calls[p].op \in PreviewOps

\* what the node answered to the simulate request of a finished preview
Answer(c) == ScriptOutcome(c.op, c.args, c.reqs[1].contract, c.inputs,
                           c.reqs[1].fault)

\* C1: whenever the simulate call of a preview fails, the preview returns that
\* same failure to its caller as an error value: no panic, no success value.
C1_PreviewReturnsFailure ==
    \A p \in Procs :
        (DonePreview(p) /\ Answer(calls[p]).kind = "Err")
            => calls[p].result = Err(Answer(calls[p]).err)

\* C1 fails where the node rejects the simulate request of a preview
C1_Failing ==
    \E p \in Procs :
        /\ DonePreview(p)
        /\ calls[p].op = "preview_swap_exact_input"
        /\ calls[p].reqs[1].fault = "transport"
        /\ calls[p].result = Panic("transport")

ExpectedMode(op) == IF op = "swap_exact_output" THEN "Realistic" ELSE "StateReadOnly"

\* C2: the execution mode of every request is fixed by the operation: realistic
\* for swap_exact_output, state-read-only for the three other previews and for
\* every query; no request is ever made in a committing mode.
C2_ModePerOperation ==
    \A p \in Procs : \A i \in DOMAIN calls[p].reqs :
        /\ calls[p].reqs[i].mode = ExpectedMode(calls[p].op)
        /\ calls[p].reqs[i].mode \in {"StateReadOnly", "Realistic"}

C2_Witness ==
    /\ DonePreview("t1") /\ calls["t1"].op = "swap_exact_output"
    /\ calls["t1"].reqs[1].mode = "Realistic"
    /\ Done("t2") /\ calls["t2"].op = "preview_add_liquidity"
    /\ calls["t2"].reqs[1].mode = "StateReadOnly"

DoneLp(p) == Done(p) /\ calls[p].op = "lp_asset_info"
Present(c) == c.result.kind = "Ok" /\ IsSome(c.result.value)
Absent(c) == c.result.kind = "Ok" /\ ~IsSome(c.result.value)
NoFault(c) == \A i \in DOMAIN c.reqs : c.reqs[i].fault = "none"
\* the sub-queries of a call that were asked and gave no value
FailedSubQueries(c) ==
    {i \in DOMAIN c.reqs : c.reqs[i].fault # "none" \/ ~IsSome(c.vals[i])}
AllFourSucceed(c) == Len(c.reqs) = 4 /\ FailedSubQueries(c) = {}
ExactDescriptor(c) ==
    c.result.value.value =
        [asset_id |-> c.args.asset,
         name |-> ledger.name[c.args.asset].value,
         symbol |-> ledger.symbol[c.args.asset].value,
         decimals |-> ledger.decimals[c.args.asset].value,
         total_supply |-> ledger.total_supply[c.args.asset].value]

\* C3 as stated: lp_asset_info returns a present descriptor iff all four
\* sub-queries succeed; any single failure yields absent; a present descriptor
\* carries the asset_id and the four values returned.
C3_AnyFailureYieldsAbsent ==
    \A p \in Procs : DoneLp(p) =>
        /\ Present(calls[p]) <=> AllFourSucceed(calls[p])
        /\ FailedSubQueries(calls[p]) # {} => Absent(calls[p])
        /\ Present(calls[p]) => ExactDescriptor(calls[p])

\* C3 amended: lp_asset_info returns a present descriptor iff all four
\* sub-queries return a value; when all four requests complete and any of them
\* returns no value the result is absent; when a request fails the call returns
\* that error (neither present nor absent); a present descriptor carries the
\* asset_id and exactly the four values returned.
C3_PresentIffAllFour ==
    \A p \in Procs : DoneLp(p) =>
        /\ Present(calls[p]) <=> AllFourSucceed(calls[p])
        /\ (NoFault(calls[p]) /\ FailedSubQueries(calls[p]) # {}) => Absent(calls[p])
        /\ ~NoFault(calls[p]) =>
              calls[p].result = Err(calls[p].reqs[Len(calls[p].reqs)].fault)
        /\ Present(calls[p]) => ExactDescriptor(calls[p])

C3_Witness ==
    /\ DoneLp("t1") /\ NoFault(calls["t1"])
    /\ IsSome(calls["t1"].vals[1]) /\ IsSome(calls["t1"].vals[2])
    /\ IsSome(calls["t1"].vals[3]) /\ ~IsSome(calls["t1"].vals[4])
    /\ Absent(calls["t1"])

\* C4: owner() yields an absent owner for an uninitialized and for a revoked
\* ownership and a present owner equal to the stored identity for an
\* initialized one, each as a normal (Ok) result.
C4_OwnerMapping ==
    \A p \in Procs :
        (Done(p) /\ calls[p].op = "owner" /\ NoFault(calls[p])) =>
            /\ ledger.ownership \in {Uninitialized, Revoked}
                  => calls[p].result = Ok(None)
            /\ \A x \in Identities :
                  ledger.ownership = Initialized(x) => calls[p].result = Ok(Some(x))

C4_Witness ==
    /\ Done("t1") /\ calls["t1"].op = "owner"
    /\ ledger.ownership = Revoked
    /\ calls["t1"].result = Ok(None)

\* the contract facts an operation asks for, in the order it asks
Facts(op) == IF op = "lp_asset_info"
             THEN <<"name", "symbol", "decimals", "total_supply">>
             ELSE <<op>>

\* C9: a query asks for each contract fact at most once, in order; a failed
\* request is the last request of the call and its error is the call's
\* result; nothing is asked again or after a failure.
C9_NoRetry ==
    \A p \in Procs : LET c == calls[p] IN
        c.op \in QueryOps =>
            /\ Len(c.reqs) <= Len(Facts(c.op))
            /\ \A i \in DOMAIN c.reqs : c.reqs[i].method = Facts(c.op)[i]
            /\ \A i \in DOMAIN c.reqs :
                  c.reqs[i].fault # "none" =>
                     /\ i = Len(c.reqs)
                     /\ c.pc = "done"
                     /\ c.result = Err(c.reqs[i].fault)
            /\ (c.pc = "done" /\ NoFault(c)) =>
                  (Len(c.reqs) = Len(Facts(c.op)) /\ c.result.kind = "Ok")

C9_Witness ==
    /\ DoneLp("t1") /\ Len(calls["t1"].reqs) = 2
    /\ calls["t1"].reqs[2].fault = "transport"
    /\ calls["t1"].result = Err("transport")

SameCall(c, d) ==
    /\ c.op = d.op /\ c.args = d.args
    /\ c.reqs[1].fault = d.reqs[1].fault

\* C5: no step of a query or preview changes the ledger or the bound facade,
\* and two finished previews of the same operation with the same parameters
\* (and the same node answer) have identical results.
C5_PreviewNonMutating ==
    /\ [][ledger' = ledger /\ (facade.status = "ok" => facade' = facade)]_vars
    /\ [](\A p, q \in Procs :
            (DonePreview(p) /\ DonePreview(q) /\ SameCall(calls[p], calls[q]))
                => calls[p].result = calls[q].result)

C5_Witness ==
    /\ DonePreview("t1") /\ DonePreview("t2")
    /\ calls["t1"].op = "preview_add_liquidity"
    /\ SameCall(calls["t1"], calls["t2"])
    /\ calls["t1"].result.kind = "Ok"
    /\ calls["t2"].result = calls["t1"].result

\* a path of hops that leads from r[1] to r[Len(r)], hop by hop
Route(pools, r) ==
    \A i \in DOMAIN pools :
        r[i] # r[i + 1] /\ {r[i], r[i + 1]} = {pools[i][1], pools[i][2]}

\* C6: swap_exact_output hands the builder exactly one spend, amount_in_max of
\* the asset at the start of the connected path that ends in the output asset
\* (A for hops [(A,B), (B,C)] and output C).
C6_ResolvedSpendAsset ==
    \A p \in Procs : LET c == calls[p] IN
        c.op = "swap_exact_output" =>
            /\ Len(c.spends) = 1
            /\ c.spends[1][2] = c.args.amount_1
            /\ \A r \in [1..(Len(c.args.pools) + 1) -> Assets] :
                  (Route(c.args.pools, r) /\ r[Len(r)] = c.args.asset)
                      => c.spends[1][1] = r[1]

C6_Witness ==
    /\ calls["t1"].op = "swap_exact_output"
    /\ calls["t1"].args.pools = <<PoolAB, PoolBC>>
    /\ calls["t1"].args.asset = "C"
    /\ calls["t1"].spends = << <<"A", calls["t1"].args.amount_1>> >>

SimulateStep(p) ==
    \/ preview_add_liquidity_simulate(p)
    \/ preview_remove_liquidity_simulate(p)
    \/ preview_swap_exact_input_simulate(p)
    \/ swap_exact_output_simulate(p)

\* C7: previews reserve nothing: no step changes the account's balance, every
\* preview has read the ledger's balance whatever the other task is doing, a
\* preview between its two awaits can always take its next step, and its result
\* is the one it would have had alone.
C7_NoReservation ==
    /\ [][ledger'.balance = ledger.balance]_vars
    /\ [](\A p \in Procs : LET c == calls[p] IN
            /\ \A i \in DOMAIN c.inputs :
                  c.inputs[i].available = ledger.balance[c.inputs[i].asset_id]
            /\ c.pc = "simulate" => ENABLED SimulateStep(p)
            /\ DonePreview(p) =>
                  c.result = Unwrap(ScriptOutcome(c.op, c.args, c.reqs[1].contract,
                      get_transaction_inputs_outputs(SimulationAddress,
                                                     c.spends).inputs,
                      c.reqs[1].fault)))

\* both previews succeeded on a balance that covers each but not both
C7_Witness ==
    /\ DonePreview("t1") /\ DonePreview("t2")
    /\ calls["t1"].op = "preview_swap_exact_input"
    /\ calls["t2"].op = "preview_swap_exact_input"
    /\ calls["t1"].args.asset = "A" /\ calls["t2"].args.asset = "A"
    /\ calls["t1"].result.kind = "Ok" /\ calls["t2"].result.kind = "Ok"
    /\ calls["t1"].args.amount_0 <= ledger.balance["A"]
    /\ calls["t2"].args.amount_0 <= ledger.balance["A"]
    /\ calls["t1"].args.amount_0 + calls["t2"].args.amount_0 > ledger.balance["A"]
    /\ calls["t1"].inputs[1].available = calls["t2"].inputs[1].available

\* C8: once connect has succeeded the bound contract is the override when one
\* was given and the default otherwise, the four scripts are configured with
\* it, id() returns it, every request goes to it, and it never changes.
C8_Binding ==
    /\ [](facade.status = "ok" =>
            /\ id = (IF IsSome(facade.arg) THEN facade.arg.value
                     ELSE DEFAULT_AMM_CONTRACT_ID)
            /\ facade.add_liquidity_script = id
            /\ facade.remove_liquidity_script = id
            /\ facade.swap_exact_input_script = id
            /\ facade.swap_exact_output_script = id
            /\ \A p \in Procs : \A i \in DOMAIN calls[p].reqs :
                  calls[p].reqs[i].contract = id)
    /\ [][facade.status = "ok" => facade' = facade]_vars

C8_Witness ==
    /\ facade.status = "ok"
    /\ facade.arg = Some(OtherContract)
    /\ id = OtherContract
    /\ DonePreview("t1")
    /\ calls["t1"].reqs[1].contract = OtherContract

ExpectedSpends(c) ==
    CASE c.op = "preview_add_liquidity" ->
            << <<c.args.pool_id[1], c.args.amount_0>>,
               <<c.args.pool_id[2], c.args.amount_1>> >>
      [] c.op = "preview_remove_liquidity" ->
            << <<get_lp_asset_id(facade.amm_contract, c.args.pool_id),
                 c.args.amount_0>> >>
      [] c.op = "preview_swap_exact_input" ->
            << <<c.args.asset, c.args.amount_0>> >>
      [] c.op = "swap_exact_output" ->
            << <<get_asset_id_in(c.args.asset, c.args.pools), c.args.amount_1>> >>

\* C10: the spends handed to the builder are, per operation, (asset 0,
\* amount_0_desired) then (asset 1, amount_1_desired); (LP asset of the bound
\* contract and pool, liquidity); (asset_in, amount_in); (resolved input asset,
\* amount_in_max); and the script runs with the builder's inputs and outputs
\* and exactly one variable output.
C10_SpendsMirrorOperation ==
    \A p \in Procs : LET c == calls[p] IN
        c.op \in PreviewOps =>
            /\ c.spends = ExpectedSpends(c)
            /\ Len(c.inputs) = Len(c.spends)
            /\ \A i \in DOMAIN c.inputs :
                  <<c.inputs[i].asset_id, c.inputs[i].amount>> = c.spends[i]
            /\ c.pc = "done" =>
                  /\ Len(c.reqs) = 1
                  /\ c.reqs[1].inputs = c.inputs
                  /\ c.reqs[1].outputs = c.outputs
                  /\ c.reqs[1].var_out = 1

C10_Witness ==
    /\ DonePreview("t1")
    /\ calls["t1"].op = "preview_add_liquidity"
    /\ calls["t1"].spends = << <<"A", 1>>, <<"B", 2>> >>
    /\ calls["t1"].reqs[1].var_out = 1

====
